---- MODULE Spec2Model ----
(***************************************************************************)
(* The clients/orders API of nodejs-api-test-framework as a state machine. *)
(* The document store is the state (the Client and Order collections; the  *)
(* Product collection is read only), one action per route handler.  `req`  *)
(* is the last request handled, `res` its response, `pre` the Order        *)
(* collection as it stood when that request arrived.  `inflight` holds the *)
(* handlers that wait on the store, where requests are served concurrently.*)
(*                                                                         *)
(* Strings that the code takes apart (the Authorization header) are        *)
(* sequences of pieces; ObjectIds are positive integers, BadId stands for  *)
(* any string that does not cast to an ObjectId.                           *)
(***************************************************************************)
EXTENDS Integers, Sequences, FiniteSets, TLC

VARIABLES clients, orders, users, nextId, now, req, res, mw, pre, inflight

vars == <<clients, orders, users, nextId, now, req, res, mw, pre, inflight>>

---------------------------------------------------------------------------
(* Bounds *)

\* Requests are handled at times 1 .. MaxTime-1 (one clock tick per request).
MaxTime == 3
\* Longest items array of a request body.
MaxItems == 2
\* Largest quantity of an item of a request body.
MaxQty == 2
\* Longest Authorization header value, in pieces.
MaxHeaderParts == 2
\* Most handlers that wait on the store at once.
MaxInflight == 2

---------------------------------------------------------------------------
(* Identifiers *)

\* A path or body id that does not cast to an ObjectId (mongoose throws a
\* CastError, which every handler's catch turns into a 400).
BadId == 0

IsObjectId(id) == id # BadId

---------------------------------------------------------------------------
(* The Product collection: read only for this API *)

products ==
    << [_id |-> 1, name |-> "P1", price |-> 10],
       [_id |-> 2, name |-> "P2", price |-> 25] >>

\* A document matches a filter {path: value, ...} when it has each value.
matches(doc, filter) == \A k \in DOMAIN filter : doc[k] = filter[k]

\* Model.find(filter), in the collection's order.
find(coll, filter) == SelectSeq(coll, LAMBDA d : matches(d, filter))

\* Model.findById(id) for a well-formed id: the documents with that _id
\* (none or one).
findById(coll, id) == find(coll, [_id |-> id])

\* The document findOne, findOneAndUpdate and findOneAndDelete act on: the
\* first that matches.
isFirst(coll, i, filter) ==
    /\ matches(coll[i], filter)
    /\ \A j \in 1..(i - 1) : ~matches(coll[j], filter)

---------------------------------------------------------------------------
(* seed.js: the store the server starts on *)

\* Names and emails are strings the list filters search, so they are kept as
\* sequences of characters (the mail domain is one piece).

SeedClients ==
    << [_id   |-> 11,
        name  |-> <<"J", "o", "h", "n", " ", "D", "o", "e">>,
        email |-> <<"j", "o", "h", "n", "@", "example.com">>],
       [_id   |-> 12,
        name  |-> <<"J", "a", "n", "e", " ", "S", "m", "i", "t", "h">>,
        email |-> <<"j", "a", "n", "e", "@", "example.com">>],
       [_id   |-> 13,
        name  |-> <<"A", "l", "i", "c", "e", " ", "B", "r", "o", "w", "n">>,
        email |-> <<"a", "l", "i", "c", "e", "@", "example.com">>] >>

\* One order per seeded client: one item with a placeholder product id
\* (21, 22, 23: no Product), a random quantity 1..5, a random total 20..119.
SeedOrders(q, t) ==
    [i \in 1..Len(SeedClients) |->
        [_id        |-> 30 + i,
         clientId   |-> SeedClients[i]._id,
         items      |-> << [productId |-> 20 + i, quantity |-> q] >>,
         totalPrice |-> t,
         status     |-> "pending",
         createdAt  |-> 0]]

\* The draws of Math.random() that Init samples.
SeedQuantities == {1, 5}
SeedTotals == {119}

---------------------------------------------------------------------------
(* Responses *)

\* The id a message ("Invalid product ID: <id>") or the text of a CastError
\* ("Cast to ObjectId failed for value <id> ... for model <model>") names.
Names(model, id) == << [model |-> model, id |-> id] >>

\* res.status(status).json(...): `by` is the function that sent the response,
\* `detail` the id its message or error text names (none or one), `data` the
\* documents of the body (the order, or the list of orders).
Json(by, status, message, detail, data) ==
    [by |-> by, status |-> status, message |-> message,
     detail |-> detail, data |-> data]

\* What a handler leaves behind: its response and the collection it wrote.
Outcome(response, coll, id) ==
    [res |-> response, orders |-> coll, clients |-> clients, users |-> users,
     nextId |-> id]

ClientsOutcome(response, coll, id) ==
    [res |-> response, orders |-> orders, clients |-> coll, users |-> users,
     nextId |-> id]

UsersOutcome(response, coll, id) ==
    [res |-> response, orders |-> orders, clients |-> clients, users |-> coll,
     nextId |-> id]

Reply(response) == Outcome(response, orders, nextId)

---------------------------------------------------------------------------
(* The pricing loop of the order handlers *)

\* for (let item of items) { findById; if (!product) return 400; totalPrice += ... }
\* outcome "priced": every product resolved; "invalid": items[i] resolved to
\* no product; "CastError": findById threw on a malformed id.
\* Mutant: totalPrice += product.price, the quantity forgotten.
RECURSIVE PriceLoopUnitPrice(_, _, _)
PriceLoopUnitPrice(items, i, totalPrice) ==
    IF i > Len(items)
    THEN [outcome |-> "priced", totalPrice |-> totalPrice, productId |-> <<>>]
    ELSE IF ~IsObjectId(items[i].productId)
    THEN [outcome |-> "CastError", totalPrice |-> totalPrice,
          productId |-> <<items[i].productId>>]
    ELSE LET product == findById(products, items[i].productId) IN
         IF product = <<>>
         THEN [outcome |-> "invalid", totalPrice |-> totalPrice,
               productId |-> <<items[i].productId>>]
         ELSE PriceLoopUnitPrice(items, i + 1, totalPrice + product[1].price)

\* Mutant: if (!product) continue, an item of no product is skipped.
RECURSIVE PriceLoopSkip(_, _, _)
PriceLoopSkip(items, i, totalPrice) ==
    IF i > Len(items)
    THEN [outcome |-> "priced", totalPrice |-> totalPrice, productId |-> <<>>]
    ELSE IF ~IsObjectId(items[i].productId)
    THEN [outcome |-> "CastError", totalPrice |-> totalPrice,
          productId |-> <<items[i].productId>>]
    ELSE LET product == findById(products, items[i].productId) IN
         IF product = <<>>
         THEN PriceLoopSkip(items, i + 1, totalPrice)
         ELSE PriceLoopSkip(items, i + 1,
                            totalPrice + product[1].price * items[i].quantity)

RECURSIVE PriceLoop(_, _, _)
PriceLoop(items, i, totalPrice) ==
    IF i > Len(items)
    THEN [outcome |-> "priced", totalPrice |-> totalPrice, productId |-> <<>>]
    ELSE IF ~IsObjectId(items[i].productId)
    THEN [outcome |-> "CastError", totalPrice |-> totalPrice,
          productId |-> <<items[i].productId>>]
    ELSE LET product == findById(products, items[i].productId) IN
         IF product = <<>>
         THEN [outcome |-> "invalid", totalPrice |-> totalPrice,
               productId |-> <<items[i].productId>>]
         ELSE PriceLoop(items, i + 1,
                        totalPrice + product[1].price * items[i].quantity)

---------------------------------------------------------------------------
(* models/Order.js *)

\* new Order({clientId, items, totalPrice}): the schema's defaults fill status
\* and createdAt; totalPrice is none or one number (undefined or given).
newOrder(clientId, items, totalPrice) ==
    [_id        |-> nextId,
     clientId   |-> clientId,
     items      |-> items,
     totalPrice |-> totalPrice,
     status     |-> "pending",
     createdAt  |-> now]

\* The validation save() runs: the ids cast, the required paths are there,
\* quantity is at least 1.
validate(doc) ==
    /\ IsObjectId(doc.clientId)
    /\ \A i \in 1..Len(doc.items) :
          /\ IsObjectId(doc.items[i].productId)
          /\ doc.items[i].quantity >= 1
    /\ Len(doc.totalPrice) = 1

\* The document as the collection holds it.
stored(doc) == [doc EXCEPT !.totalPrice = doc.totalPrice[1]]

\* await newOrder.save(); res.status(201).json(newOrder), or the catch.
saveOrder(by, doc) ==
    IF validate(doc)
    THEN Outcome(Json(by, 201, "", <<>>, <<stored(doc)>>),
                 Append(orders, stored(doc)), nextId + 1)
    ELSE Reply(Json(by, 400, "Error creating order", <<>>, <<>>))

\* The answer of a handler whose pricing loop did not finish.
priceFailure(by, p, caught) ==
    IF p.outcome = "invalid"
    THEN Reply(Json(by, 400, "Invalid product ID", Names("Product", p.productId[1]), <<>>))
    ELSE Reply(Json(by, 400, caught, Names("Product", p.productId[1]), <<>>))

---------------------------------------------------------------------------
(* routes/orderRoutes.js, with automatic price calculation *)

\* router.post("/")
postOrder(clientId, items) ==
    IF ~IsObjectId(clientId)
    THEN Reply(Json("postOrder", 400, "Error creating order",
                    Names("Client", clientId), <<>>))
    ELSE IF findById(clients, clientId) = <<>>
    THEN Reply(Json("postOrder", 400, "Invalid client ID", <<>>, <<>>))
    ELSE LET p == PriceLoop(items, 1, 0) IN
         IF p.outcome = "priced"
         THEN saveOrder("postOrder", newOrder(clientId, items, <<p.totalPrice>>))
         ELSE priceFailure("postOrder", p, "Error creating order")

\* router.post("/") from the pricing loop on: what runs once the client lookup
\* has answered.
postOrderPriced(clientId, items) ==
    LET p == PriceLoop(items, 1, 0) IN
    IF p.outcome = "priced"
    THEN saveOrder("postOrder", newOrder(clientId, items, <<p.totalPrice>>))
    ELSE priceFailure("postOrder", p, "Error creating order")

\* Mutant: the document is replaced, the schema's defaults fill the rest.
setItemsReplace(coll, filter, items, totalPrice) ==
    [i \in 1..Len(coll) |->
        IF isFirst(coll, i, filter)
        THEN [coll[i] EXCEPT !.items = items, !.totalPrice = totalPrice,
                             !.status = "pending", !.createdAt = now]
        ELSE coll[i]]

\* Order.findOneAndUpdate(filter, {items, totalPrice}, {new: true}): the first
\* document the filter selects gets the two paths set, no validator runs.
setItems(coll, filter, items, totalPrice) ==
    [i \in 1..Len(coll) |->
        IF isFirst(coll, i, filter)
        THEN [coll[i] EXCEPT !.items = items, !.totalPrice = totalPrice]
        ELSE coll[i]]

\* Mutant: the if (!order) check is missing.
putOrderUnchecked(id, items) ==
    LET p == PriceLoop(items, 1, 0) IN
    IF p.outcome # "priced"
    THEN priceFailure("putOrder", p, "Error updating order")
    ELSE IF ~IsObjectId(id)
    THEN Reply(Json("putOrder", 400, "Error updating order", Names("Order", id), <<>>))
    ELSE LET updated == setItems(orders, [_id |-> id], items, p.totalPrice) IN
         Outcome(Json("putOrder", 200, "", <<>>, findById(updated, id)),
                 updated, nextId)

\* router.put("/:id")
putOrder(id, items) ==
    LET p == PriceLoop(items, 1, 0) IN
    IF p.outcome # "priced"
    THEN priceFailure("putOrder", p, "Error updating order")
    ELSE IF ~IsObjectId(id)
    THEN Reply(Json("putOrder", 400, "Error updating order", Names("Order", id), <<>>))
    ELSE IF findById(orders, id) = <<>>
    THEN Reply(Json("putOrder", 404, "Order not found", <<>>, <<>>))
    ELSE LET updated == setItems(orders, [_id |-> id], items, p.totalPrice) IN
         Outcome(Json("putOrder", 200, "", <<>>, findById(updated, id)),
                 updated, nextId)

\* Order.findByIdAndUpdate(id, {status}, {new: true})
setStatus(coll, id, status) ==
    [i \in 1..Len(coll) |->
        IF isFirst(coll, i, [_id |-> id])
        THEN [coll[i] EXCEPT !.status = status]
        ELSE coll[i]]

\* Mutant: only a pending order is canceled.
patchCancelPending(id) ==
    IF ~IsObjectId(id)
    THEN Reply(Json("patchCancel", 400, "Error canceling order", Names("Order", id), <<>>))
    ELSE IF findById(orders, id) = <<>>
    THEN Reply(Json("patchCancel", 404, "Order not found", <<>>, <<>>))
    ELSE IF findById(orders, id)[1].status # "pending"
    THEN Reply(Json("patchCancel", 200, "", <<>>, findById(orders, id)))
    ELSE Outcome(Json("patchCancel", 200, "", <<>>,
                      findById(setStatus(orders, id, "canceled"), id)),
                 setStatus(orders, id, "canceled"), nextId)

\* router.patch("/:id/cancel")
patchCancel(id) ==
    IF ~IsObjectId(id)
    THEN Reply(Json("patchCancel", 400, "Error canceling order", Names("Order", id), <<>>))
    ELSE IF findById(orders, id) = <<>>
    THEN Reply(Json("patchCancel", 404, "Order not found", <<>>, <<>>))
    ELSE Outcome(Json("patchCancel", 200, "", <<>>,
                      findById(setStatus(orders, id, "canceled"), id)),
                 setStatus(orders, id, "canceled"), nextId)

---------------------------------------------------------------------------
(* routes/orderRoutes.js, the variant that takes totalPrice from the body *)

\* router.post("/")
postOrderBody(clientId, items, totalPrice) ==
    IF ~IsObjectId(clientId)
    THEN Reply(Json("postOrderBody", 400, "Error creating order", <<>>, <<>>))
    ELSE IF findById(clients, clientId) = <<>>
    THEN Reply(Json("postOrderBody", 400, "Invalid client ID", <<>>, <<>>))
    ELSE saveOrder("postOrderBody", newOrder(clientId, items, totalPrice))

\* router.put("/:id"): findByIdAndUpdate(id, { status }, { new: true }).  No
\* validator runs on an update, so any string is stored; a status that is
\* undefined (none) is left out of the update.
putOrderStatus(id, status) ==
    IF ~IsObjectId(id)
    THEN Reply(Json("putOrderStatus", 400, "Invalid ID format", <<>>, <<>>))
    ELSE IF findById(orders, id) = <<>>
    THEN Reply(Json("putOrderStatus", 404, "Order not found", <<>>, <<>>))
    ELSE IF status = <<>>
    THEN Reply(Json("putOrderStatus", 200, "", <<>>, findById(orders, id)))
    ELSE Outcome(Json("putOrderStatus", 200, "", <<>>,
                      findById(setStatus(orders, id, status[1]), id)),
                 setStatus(orders, id, status[1]), nextId)

---------------------------------------------------------------------------
(* middleware/authMiddleware.js *)

SECRET_KEY == "your_secret_key"

\* The tokens a request may carry, by what they decode to: the key that signed
\* them and their payload.  Every other string is no token at all.
Jwt ==
    [jwtUser     |-> [userId |-> 51, key |-> SECRET_KEY,  exp |-> 100],
     jwtExpiring |-> [userId |-> 51, key |-> SECRET_KEY,  exp |-> 2],
     jwtExpired  |-> [userId |-> 51, key |-> SECRET_KEY,  exp |-> 1],
     jwtForged   |-> [userId |-> 51, key |-> "other_key", exp |-> 100]]

\* jsonwebtoken's verify(token, key): the payload (one), or none where it
\* throws: the string is not one well-formed token, the signature is not the
\* key's, or the token has expired.
verify(token, key) ==
    IF /\ Len(token) = 1
       /\ token[1] \in DOMAIN Jwt
       /\ Jwt[token[1]].key = key
       /\ now < Jwt[token[1]].exp
    THEN << [userId |-> Jwt[token[1]].userId, exp |-> Jwt[token[1]].exp] >>
    ELSE <<>>

\* String.prototype.replace(piece, ""): the first occurrence goes.
replace(str, piece) ==
    IF \E i \in 1..Len(str) : str[i] = piece
    THEN LET i == CHOOSE k \in 1..Len(str) :
                     /\ str[k] = piece
                     /\ \A j \in 1..(k - 1) : str[j] # piece
         IN  SubSeq(str, 1, i - 1) \o SubSeq(str, i + 1, Len(str))
    ELSE str

\* What the middleware did with the request: the response it sent (none or
\* one), whether it called next(), and req.user (none or one).  `header` is
\* req.header("Authorization"): none, or one string.
\* Mutant: the catch calls next() where it should answer 401.
authMiddlewareLenient(header) ==
    IF header = <<>> \/ header[1] = <<>>
    THEN [sent |-> << Json("authMiddleware", 401,
                           "Access denied. No token provided.", <<>>, <<>>) >>,
          next |-> FALSE, user |-> <<>>]
    ELSE [sent |-> <<>>, next |-> TRUE,
          user |-> verify(replace(header[1], "Bearer "), SECRET_KEY)]

\* if (!token) return 401; try { req.user = verify(...); next() } catch { 401 }
\* (the empty string is falsy: an empty header is answered as a missing one).
authMiddleware(header) ==
    IF header = <<>> \/ header[1] = <<>>
    THEN [sent |-> << Json("authMiddleware", 401,
                           "Access denied. No token provided.", <<>>, <<>>) >>,
          next |-> FALSE, user |-> <<>>]
    ELSE LET decoded == verify(replace(header[1], "Bearer "), SECRET_KEY) IN
         IF decoded # <<>>
         THEN [sent |-> <<>>, next |-> TRUE, user |-> decoded]
         ELSE [sent |-> << Json("authMiddleware", 401, "Invalid token", <<>>, <<>>) >>,
               next |-> FALSE, user |-> <<>>]

\* A route without middleware: its handler is what express calls.
NoMiddleware == [sent |-> <<>>, next |-> TRUE, user |-> <<>>]

\* router.METHOD(path, authMiddleware, handler): the handler runs when the
\* middleware called next(), and the middleware's response stands otherwise.
gated(m, handler) == IF m.next THEN handler ELSE Reply(m.sent[1])

---------------------------------------------------------------------------
(* routes/clientOrdersRoutes.js *)

\* .populate("items.productId", "name price")
populate(order) ==
    [order EXCEPT !.items =
        [i \in 1..Len(order.items) |->
            [productId |-> findById(products, order.items[i].productId),
             quantity  |-> order.items[i].quantity]]]

populated(coll) == [i \in 1..Len(coll) |-> populate(coll[i])]

\* The orders a {clientId} or {_id, clientId} filter selects.
ownedBy(clientId) == find(orders, [clientId |-> clientId])

\* Mutant: the filter forgets the client.
ownedOrderOfAnyone(clientId, orderId) == find(orders, [_id |-> orderId])

ownedOrder(clientId, orderId) ==
    find(orders, [_id |-> orderId, clientId |-> clientId])

\* router.get("/:clientId/orders")
getClientOrders(clientId) ==
    IF ~IsObjectId(clientId)
    THEN Reply(Json("getClientOrders", 400, "Error fetching client orders",
                    Names("Order", clientId), <<>>))
    ELSE Reply(Json("getClientOrders", 200, "", <<>>, populated(ownedBy(clientId))))

\* router.post("/:clientId/orders")
postClientOrder(clientId, items) ==
    LET p == PriceLoop(items, 1, 0) IN
    IF p.outcome = "priced"
    THEN saveOrder("postClientOrder", newOrder(clientId, items, <<p.totalPrice>>))
    ELSE priceFailure("postClientOrder", p, "Error creating order")

\* router.get("/:clientId/orders/:orderId")
getClientOrder(clientId, orderId) ==
    IF ~IsObjectId(clientId) \/ ~IsObjectId(orderId)
    THEN Reply(Json("getClientOrder", 400, "Error fetching order", <<>>, <<>>))
    ELSE IF ownedOrder(clientId, orderId) = <<>>
    THEN Reply(Json("getClientOrder", 404, "Order not found", <<>>, <<>>))
    ELSE Reply(Json("getClientOrder", 200, "", <<>>,
                    populated(SubSeq(ownedOrder(clientId, orderId), 1, 1))))

\* router.put("/:clientId/orders/:orderId")
putClientOrder(clientId, orderId, items) ==
    LET p == PriceLoop(items, 1, 0) IN
    IF p.outcome # "priced"
    THEN priceFailure("putClientOrder", p, "Error updating order")
    ELSE IF ~IsObjectId(clientId) \/ ~IsObjectId(orderId)
    THEN Reply(Json("putClientOrder", 400, "Error updating order", <<>>, <<>>))
    ELSE IF ownedOrder(clientId, orderId) = <<>>
    THEN Reply(Json("putClientOrder", 404, "Order not found", <<>>, <<>>))
    ELSE LET updated == setItems(orders, [_id |-> orderId, clientId |-> clientId],
                                 items, p.totalPrice)
         IN  Outcome(Json("putClientOrder", 200, "", <<>>, findById(updated, orderId)),
                     updated, nextId)

\* Order.findOneAndDelete(filter): the first document the filter selects goes.
deleteFirst(coll, filter) ==
    IF \E i \in 1..Len(coll) : matches(coll[i], filter)
    THEN LET i == CHOOSE k \in 1..Len(coll) : isFirst(coll, k, filter)
         IN  SubSeq(coll, 1, i - 1) \o SubSeq(coll, i + 1, Len(coll))
    ELSE coll

\* router.delete("/:clientId/orders/:orderId")
deleteClientOrder(clientId, orderId) ==
    IF ~IsObjectId(clientId) \/ ~IsObjectId(orderId)
    THEN Reply(Json("deleteClientOrder", 400, "Error deleting order", <<>>, <<>>))
    ELSE IF ownedOrder(clientId, orderId) = <<>>
    THEN Reply(Json("deleteClientOrder", 404, "Order not found", <<>>, <<>>))
    ELSE Outcome(Json("deleteClientOrder", 200, "Order deleted successfully", <<>>, <<>>),
                 deleteFirst(orders, [_id |-> orderId, clientId |-> clientId]),
                 nextId)

---------------------------------------------------------------------------
(* routes/orderRoutes.js: the client's orders, under /orders *)

\* router.get("/clients/:clientId/orders")
getOrdersOfClient(clientId) ==
    IF ~IsObjectId(clientId)
    THEN Reply(Json("getOrdersOfClient", 400, "Error fetching client orders",
                    Names("Order", clientId), <<>>))
    ELSE Reply(Json("getOrdersOfClient", 200, "", <<>>, populated(ownedBy(clientId))))

---------------------------------------------------------------------------
(* Query strings and pagination of the list handlers *)

Digits == <<"0", "1", "2", "3", "4", "5", "6", "7", "8", "9">>

IsDigit(c) == \E i \in 1..Len(Digits) : Digits[i] = c

DigitValue(c) == (CHOOSE i \in 1..Len(Digits) : Digits[i] = c) - 1

\* The number the digits of str from position i on stand for, up to the first
\* character that is no digit.
RECURSIVE parseDigits(_, _, _)
parseDigits(str, i, n) ==
    IF i > Len(str) \/ ~IsDigit(str[i])
    THEN n
    ELSE parseDigits(str, i + 1, n * 10 + DigitValue(str[i]))

\* parseInt(str): an optional sign and the digits that follow it; NaN (none)
\* where no digit follows.  The rest of the string is ignored.
parseInt(str) ==
    LET signed == str # <<>> /\ str[1] = "-"
        first  == IF signed THEN 2 ELSE 1
    IN  IF first > Len(str) \/ ~IsDigit(str[first])
        THEN <<>>
        ELSE IF signed
        THEN << 0 - parseDigits(str, first, 0) >>
        ELSE << parseDigits(str, first, 0) >>

\* let { page = 1 } = req.query; page = parseInt(page): the default where the
\* parameter is absent.
parsed(param, default) == IF param = <<>> THEN <<default>> ELSE parseInt(param[1])

\* The lower case of the letters the seeded names are written with.
Lower ==
    [A |-> "a", B |-> "b", D |-> "d", J |-> "j", O |-> "o", S |-> "s", Z |-> "z"]

toLowerCase(str) ==
    [i \in 1..Len(str) |-> IF str[i] \in DOMAIN Lower THEN Lower[str[i]] ELSE str[i]]

\* new RegExp(pattern, "i") on a string, for a pattern of letters: the string
\* contains the pattern, case aside.
test(pattern, str) ==
    \E i \in 0..(Len(str) - Len(pattern)) :
        SubSeq(toLowerCase(str), i + 1, i + Len(pattern)) = toLowerCase(pattern)

\* let query = {}; if (name) query.name = ...: a field for each of `fields`
\* that the request gives and that is not the empty string.
queryOf(given, fields, empty) ==
    [k \in {f \in fields : given[f] # <<>> /\ given[f][1] # empty} |-> given[k][1]]

\* Client.find(query) for a query of regular expressions.
findRegExp(coll, query) ==
    SelectSeq(coll, LAMBDA d : \A k \in DOMAIN query : test(query[k], d[k]))

\* Mutant: skip(page * limit).
paginateFromPage(coll, page, limit) ==
    LET rest == SubSeq(coll, page * limit + 1, Len(coll)) IN
    IF limit = 0 \/ limit >= Len(rest) THEN rest ELSE SubSeq(rest, 1, limit)

\* .skip((page - 1) * limit).limit(limit), for a skip that is not negative;
\* limit(0) sets no limit.
paginate(coll, page, limit) ==
    LET rest == SubSeq(coll, (page - 1) * limit + 1, Len(coll)) IN
    IF limit = 0 \/ limit >= Len(rest) THEN rest ELSE SubSeq(rest, 1, limit)

\* Math.ceil(total / limit) as JSON: a number, or null (none) for the Infinity
\* and NaN of a division by 0.
ceil(total, limit) ==
    IF limit = 0 THEN <<>> ELSE << (total + limit - 1) \div limit >>

\* res.json({ total, page, limit, totalPages, data })
Page(by, total, page, limit, totalPages, data) ==
    [by |-> by, status |-> 200, message |-> "", detail |-> <<>>, data |-> data,
     total |-> total, page |-> page, limit |-> limit, totalPages |-> totalPages]

\* A list handler, from the parsed page and limit on.  The server refuses a
\* skip that is NaN or negative: find throws and the catch answers 500.
list(by, matching, data, page, limit, message) ==
    IF page = <<>> \/ limit = <<>>
    THEN Reply(Json(by, 500, message, <<>>, <<>>))
    ELSE IF (page[1] - 1) * limit[1] < 0
    THEN Reply(Json(by, 500, message, <<>>, <<>>))
    ELSE Reply(Page(by, Len(matching), page[1], limit[1],
                    ceil(Len(matching), limit[1]),
                    paginate(data, page[1], limit[1])))

---------------------------------------------------------------------------
(* routes/clientRoutes.js *)

\* { id: client._id.toString(), name: client.name, email: client.email }
formatted(coll) ==
    [i \in 1..Len(coll) |->
        [id |-> coll[i]._id, name |-> coll[i].name, email |-> coll[i].email]]

\* router.get("/")
listClients(query) ==
    LET matching == findRegExp(clients, queryOf(query, {"name", "email"}, <<>>)) IN
    list("listClients", matching, formatted(matching),
         parsed(query.page, 1), parsed(query.limit, 10), "Error fetching clients")

\* router.post("/"): name and email are required, and the email is unique.
postClient(name, email) ==
    IF name = <<>> \/ email = <<>>
    THEN Reply(Json("postClient", 400, "Name and email are required", <<>>, <<>>))
    ELSE IF \E i \in 1..Len(clients) : clients[i].email = email
    THEN Reply(Json("postClient", 400, "Error creating client", <<>>, <<>>))
    ELSE LET newClient == [_id |-> nextId, name |-> name, email |-> email] IN
         ClientsOutcome(Json("postClient", 201, "", <<>>, formatted(<<newClient>>)),
                        Append(clients, newClient), nextId + 1)

\* Mutant: the answer does not look at what findByIdAndDelete found.
deleteClientUnchecked(id) ==
    IF ~IsObjectId(id)
    THEN Reply(Json("deleteClient", 400, "Invalid ID format", <<>>, <<>>))
    ELSE ClientsOutcome(Json("deleteClient", 200, "Client deleted successfully",
                             <<>>, <<>>),
                        deleteFirst(clients, [_id |-> id]), nextId)

\* router.delete("/:id")
deleteClient(id) ==
    IF ~IsObjectId(id)
    THEN Reply(Json("deleteClient", 400, "Invalid ID format", <<>>, <<>>))
    ELSE IF findById(clients, id) = <<>>
    THEN Reply(Json("deleteClient", 404, "Client not found", <<>>, <<>>))
    ELSE ClientsOutcome(Json("deleteClient", 200, "Client deleted successfully",
                             <<>>, <<>>),
                        deleteFirst(clients, [_id |-> id]), nextId)

---------------------------------------------------------------------------
(* routes/orderRoutes.js: the list *)

\* .populate("clientId", "name email") ... .lean(), and the forEach that
\* renames _id to id and clientId to client (null, none, where the client is
\* gone).
listed(coll) ==
    [i \in 1..Len(coll) |->
        [id         |-> coll[i]._id,
         client     |-> formatted(findById(clients, coll[i].clientId)),
         items      |-> populate(coll[i]).items,
         totalPrice |-> coll[i].totalPrice,
         status     |-> coll[i].status,
         createdAt  |-> coll[i].createdAt]]

\* router.get("/")
listOrders(query) ==
    LET matching == find(orders, queryOf(query, {"status"}, "")) IN
    list("listOrders", matching, listed(matching),
         parsed(query.page, 1), parsed(query.limit, 10), "Error fetching orders")

\* router.get("/:id") (orderRoutes): the order with its client and products
\* populated, _id renamed to id.
getOrder(id) ==
    IF ~IsObjectId(id)
    THEN Reply(Json("getOrder", 400, "Invalid ID format", <<>>, <<>>))
    ELSE IF findById(orders, id) = <<>>
    THEN Reply(Json("getOrder", 404, "Order not found", <<>>, <<>>))
    ELSE LET order == findById(orders, id)[1] IN
         Reply(Json("getOrder", 200, "", <<>>,
                    << [id         |-> order._id,
                        clientId   |-> findById(clients, order.clientId),
                        items      |-> populate(order).items,
                        totalPrice |-> order.totalPrice,
                        status     |-> order.status,
                        createdAt  |-> order.createdAt] >>))

\* router.delete("/:id") (orderRoutes)
deleteOrder(id) ==
    IF ~IsObjectId(id)
    THEN Reply(Json("deleteOrder", 400, "Invalid ID format", <<>>, <<>>))
    ELSE IF findById(orders, id) = <<>>
    THEN Reply(Json("deleteOrder", 404, "Order not found", <<>>, <<>>))
    ELSE Outcome(Json("deleteOrder", 200, "Order deleted successfully", <<>>, <<>>),
                 deleteFirst(orders, [_id |-> id]), nextId)

---------------------------------------------------------------------------
(* routes/clientRoutes.js: one client *)

\* router.get("/:id") (clientRoutes)
getClient(id) ==
    IF ~IsObjectId(id)
    THEN Reply(Json("getClient", 400, "Invalid ID format", <<>>, <<>>))
    ELSE IF findById(clients, id) = <<>>
    THEN Reply(Json("getClient", 404, "Client not found", <<>>, <<>>))
    ELSE Reply(Json("getClient", 200, "", <<>>, formatted(findById(clients, id))))

\* Client.findByIdAndUpdate(id, { name, email }): the paths the body gives
\* (none or one value each) are set, no validator runs.
setClient(coll, id, name, email) ==
    [i \in 1..Len(coll) |->
        IF isFirst(coll, i, [_id |-> id])
        THEN [_id   |-> coll[i]._id,
              name  |-> IF name = <<>> THEN coll[i].name ELSE name[1],
              email |-> IF email = <<>> THEN coll[i].email ELSE email[1]]
        ELSE coll[i]]

\* Mutant: the update is written without the unique index on email.
putClientNoIndex(id, name, email) ==
    IF ~IsObjectId(id)
    THEN Reply(Json("putClient", 400, "Invalid ID format", <<>>, <<>>))
    ELSE IF findById(clients, id) = <<>>
    THEN Reply(Json("putClient", 404, "Client not found", <<>>, <<>>))
    ELSE ClientsOutcome(Json("putClient", 200, "", <<>>,
                             formatted(findById(setClient(clients, id, name, email), id))),
                        setClient(clients, id, name, email), nextId)

\* router.put("/:id") (clientRoutes).  The unique index on email refuses the
\* write that would give two clients one email: the error lands in the catch.
putClient(id, name, email) ==
    IF ~IsObjectId(id)
    THEN Reply(Json("putClient", 400, "Invalid ID format", <<>>, <<>>))
    ELSE IF findById(clients, id) = <<>>
    THEN Reply(Json("putClient", 404, "Client not found", <<>>, <<>>))
    ELSE IF /\ email # <<>>
            /\ \E i \in 1..Len(clients) :
                  clients[i]._id # id /\ clients[i].email = email[1]
    THEN Reply(Json("putClient", 400, "Invalid ID format", <<>>, <<>>))
    ELSE ClientsOutcome(Json("putClient", 200, "", <<>>,
                             formatted(findById(setClient(clients, id, name, email), id))),
                        setClient(clients, id, name, email), nextId)

---------------------------------------------------------------------------
(* routes/authRoutes.js and the User model *)

\* bcrypt hashes the first 72 bytes of a password and ignores the rest.
BcryptBytes == 72

\* The hash the User model stores for a password (a password is a sequence of
\* bytes): what of the password it depends on.
hash(password) ==
    [bcrypt |-> SubSeq(password, 1,
                       IF Len(password) < BcryptBytes THEN Len(password)
                                                      ELSE BcryptBytes)]

\* bcryptjs' compare(password, digest)
compare(password, digest) == hash(password) = digest

\* The token lasts an hour: the model's clock counts 100 ticks for it.
OneHour == 100

\* sign(payload, key, { expiresIn }): the token, as what it decodes to (the
\* shape of the entries of Jwt).
sign(payload, key, expiresIn) ==
    [userId |-> payload.userId, key |-> key, exp |-> now + expiresIn]

\* express-validator's isEmail, of an address written as its pieces: one "@"
\* after a local part, and a domain name after it.
isEmail(str) ==
    /\ Len(str) >= 3
    /\ str[Len(str) - 1] = "@"
    /\ str[Len(str)] = "example.com"
    /\ \A i \in 1..(Len(str) - 2) : str[i] \notin {"@", "example.com"}

\* validationResult(req) of POST /auth/register: name notEmpty, email isEmail,
\* password isLength({ min: 6 }).
registerValid(name, email, password) ==
    name # "" /\ isEmail(email) /\ Len(password) >= 6

\* user = new User({ name, email, password }); await user.save()
newUser(name, email, password) ==
    [_id |-> nextId, name |-> name, email |-> email, password |-> hash(password)]

\* router.post("/register")
register(name, email, password) ==
    IF ~registerValid(name, email, password)
    THEN Reply(Json("register", 400, "", <<>>, <<>>))
    ELSE IF find(users, [email |-> email]) # <<>>
    THEN Reply(Json("register", 400, "Email already in use", <<>>, <<>>))
    ELSE UsersOutcome(Json("register", 201, "User registered successfully", <<>>, <<>>),
                      Append(users, newUser(name, email, password)), nextId + 1)

\* router.post("/register") from user.save() on: what runs once findOne has
\* answered that no user has the email.  The unique index on email refuses a
\* second user with it: save() throws, and the catch answers 500.
registerSave(name, email, password) ==
    IF find(users, [email |-> email]) # <<>>
    THEN Reply(Json("register", 500, "Server error", <<>>, <<>>))
    ELSE UsersOutcome(Json("register", 201, "User registered successfully", <<>>, <<>>),
                      Append(users, newUser(name, email, password)), nextId + 1)

\* router.post("/login"): email isEmail, password notEmpty.
login(email, password) ==
    IF ~isEmail(email) \/ password = <<>>
    THEN Reply(Json("login", 400, "", <<>>, <<>>))
    ELSE IF find(users, [email |-> email]) = <<>>
    THEN Reply(Json("login", 400, "Invalid credentials", <<>>, <<>>))
    ELSE LET user == find(users, [email |-> email])[1] IN
         IF ~compare(password, user.password)
         THEN Reply(Json("login", 400, "Invalid credentials", <<>>, <<>>))
         ELSE Reply(Json("login", 200, "", <<>>,
                         << [token |-> sign([userId |-> user._id], SECRET_KEY, OneHour)] >>))

---------------------------------------------------------------------------
(* Requests *)

\* The items of request bodies: the quantity varies on product 1; product 2,
\* an id of no product (99) and a malformed id come with quantity 1.
Items ==
    {[productId |-> 1, quantity |-> q] : q \in 0..MaxQty}
        \cup {[productId |-> p, quantity |-> 1] : p \in {2, 99, BadId}}

ItemSeqs == UNION {[1..n -> Items] : n \in 0..MaxItems}

\* clientId of a body or a path: malformed, two seeded clients, no client.
ClientIdInputs == {BadId, 11, 12, 99}

\* Order id of a path: malformed, a seeded order, the first order created,
\* no order.
OrderIdInputs == {BadId, 31, 41, 99}

\* totalPrice of a body: left out, or a number of the sender's choosing.
TotalPriceInputs == {<<>>, <<7>>}

Pieces ==
    {"Bearer ", "Basic ", "jwtUser", "jwtExpiring", "jwtExpired", "jwtForged",
     "garbage"}

\* req.header("Authorization"): none, or one string of 0..MaxHeaderParts pieces
\* (the string of no piece is the empty header value).
AuthHeaders ==
    {<<>>} \cup {<<v>> : v \in UNION {[1..n -> Pieces] : n \in 0..MaxHeaderParts}}

BearerUser == << <<"Bearer ", "jwtUser">> >>

\* A query parameter is absent (none) or one string.
Given(strings) == {<<>>} \cup {<<str>> : str \in strings}

\* ?page= and ?limit=: numbers, the empty string, a number with a trailing
\* letter, no number, a negative page.
PageInputs ==
    Given({<<"0">>, <<"1">>, <<"2">>, <<"3">>, <<"2", "x">>, <<"x">>,
           <<"-", "1">>, <<>>})

LimitInputs == Given({<<"0">>, <<"1">>, <<"2">>, <<"1", "0">>, <<"x">>})

\* ?name= and ?email=: the empty string, and patterns that select one, two and
\* none of the seeded clients.
NameInputs == Given({<<>>, <<"j", "O">>, <<"a">>, <<"z">>})

EmailInputs == Given({<<"n", "@">>})

StatusInputs == Given({"", "pending", "canceled"})

ClientQueries ==
    [page : PageInputs, limit : LimitInputs, name : NameInputs, email : EmailInputs]

OrderQueries == [page : PageInputs, limit : LimitInputs, status : StatusInputs]

\* The name and email of a POST /clients body: left out, new, or as seeded.
NewNames == {<<>>, <<"Z", "o", "e">>}

NewEmails == {<<>>, <<"z", "o", "e", "@", "example.com">>, SeedClients[1].email}

\* Express handles one request, which arrives at time `now`: the response, the
\* store and the clock move.
Serve(route, auth, params, query, body, m, out) ==
    /\ now < MaxTime
    /\ req' = [route |-> route, auth |-> auth, params |-> params, query |-> query,
               body |-> body, at |-> now]
    /\ mw' = m
    /\ res' = out.res
    /\ orders' = out.orders
    /\ nextId' = out.nextId
    /\ clients' = out.clients
    /\ users' = out.users
    /\ UNCHANGED inflight
    /\ pre' = orders
    /\ now' = now + 1

\* A request without a query string.
Handle(route, auth, params, body, m, out) ==
    Serve(route, auth, params, <<>>, body, m, out)

PostOrders(clientId, items, totalPrice) ==
    Handle("POST /orders", <<>>, <<>>,
           [clientId |-> clientId, items |-> items, totalPrice |-> totalPrice],
           NoMiddleware, postOrder(clientId, items))

PostOrdersBody(clientId, items, totalPrice) ==
    Handle("POST /orders", <<>>, <<>>,
           [clientId |-> clientId, items |-> items, totalPrice |-> totalPrice],
           NoMiddleware, postOrderBody(clientId, items, totalPrice))

PutOrders(id, items) ==
    Handle("PUT /orders/:id", <<>>, [id |-> id], [items |-> items],
           NoMiddleware, putOrder(id, items))

PatchCancel(id) ==
    Handle("PATCH /orders/:id/cancel", <<>>, [id |-> id], <<>>,
           NoMiddleware, patchCancel(id))

GetOrdersOfClient(clientId) ==
    Handle("GET /orders/clients/:clientId/orders", <<>>, [clientId |-> clientId], <<>>,
           NoMiddleware, getOrdersOfClient(clientId))

GetClientOrders(auth, clientId) ==
    Handle("GET /clients/:clientId/orders", auth, [clientId |-> clientId], <<>>,
           authMiddleware(auth), gated(authMiddleware(auth), getClientOrders(clientId)))

PostClientOrders(auth, clientId, items) ==
    Handle("POST /clients/:clientId/orders", auth, [clientId |-> clientId],
           [items |-> items],
           authMiddleware(auth),
           gated(authMiddleware(auth), postClientOrder(clientId, items)))

GetClientOrder(auth, clientId, orderId) ==
    Handle("GET /clients/:clientId/orders/:orderId", auth,
           [clientId |-> clientId, orderId |-> orderId], <<>>,
           authMiddleware(auth),
           gated(authMiddleware(auth), getClientOrder(clientId, orderId)))

PutClientOrder(auth, clientId, orderId, items) ==
    Handle("PUT /clients/:clientId/orders/:orderId", auth,
           [clientId |-> clientId, orderId |-> orderId], [items |-> items],
           authMiddleware(auth),
           gated(authMiddleware(auth), putClientOrder(clientId, orderId, items)))

DeleteClientOrder(auth, clientId, orderId) ==
    Handle("DELETE /clients/:clientId/orders/:orderId", auth,
           [clientId |-> clientId, orderId |-> orderId], <<>>,
           authMiddleware(auth),
           gated(authMiddleware(auth), deleteClientOrder(clientId, orderId)))

ListClients(query) ==
    Serve("GET /clients", <<>>, <<>>, query, <<>>, NoMiddleware, listClients(query))

PostClient(name, email) ==
    Handle("POST /clients", <<>>, <<>>, [name |-> name, email |-> email],
           NoMiddleware, postClient(name, email))

DeleteClient(id) ==
    Handle("DELETE /clients/:id", <<>>, [id |-> id], <<>>,
           NoMiddleware, deleteClient(id))

ListOrders(query) ==
    Serve("GET /orders", <<>>, <<>>, query, <<>>, NoMiddleware, listOrders(query))

\* A password of n bytes that ends in `last`.
Padded(n, last) == [i \in 1..n |-> IF i = n THEN last ELSE "a"]

\* Passwords: too short, two of six bytes, two that differ in byte 73 only,
\* none.
Passwords ==
    {Padded(5, "x"), Padded(6, "x"), Padded(6, "y"),
     Padded(BcryptBytes + 1, "x"), Padded(BcryptBytes + 1, "y"), <<>>}

\* Addresses: two that are valid, one that is not.
UserEmails ==
    {<<"a", "n", "n", "@", "example.com">>, <<"b", "o", "b", "@", "example.com">>,
     <<"a", "n", "n">>}

UserNames == {"", "Ann"}

Register(name, email, password) ==
    Handle("POST /auth/register", <<>>, <<>>,
           [name |-> name, email |-> email, password |-> password],
           NoMiddleware, register(name, email, password))

Login(email, password) ==
    Handle("POST /auth/login", <<>>, <<>>, [email |-> email, password |-> password],
           NoMiddleware, login(email, password))

PutOrderStatus(id, status) ==
    Handle("PUT /orders/:id", <<>>, [id |-> id], [status |-> status],
           NoMiddleware, putOrderStatus(id, status))

GetOrder(id) ==
    Handle("GET /orders/:id", <<>>, [id |-> id], <<>>, NoMiddleware, getOrder(id))

DeleteOrder(id) ==
    Handle("DELETE /orders/:id", <<>>, [id |-> id], <<>>,
           NoMiddleware, deleteOrder(id))

GetClient(id) ==
    Handle("GET /clients/:id", <<>>, [id |-> id], <<>>, NoMiddleware, getClient(id))

PutClient(id, name, email) ==
    Handle("PUT /clients/:id", <<>>, [id |-> id], [name |-> name, email |-> email],
           NoMiddleware, putClient(id, name, email))

---------------------------------------------------------------------------
(* Requests served concurrently: a handler gives way at an await *)

Request(route, params, body) ==
    [route |-> route, auth |-> <<>>, params |-> params, query |-> <<>>,
     body |-> body, at |-> now]

\* The handler of a request waits on the store: nothing is answered yet.
Suspend(request) ==
    /\ Len(inflight) < MaxInflight
    /\ inflight' = Append(inflight, request)
    /\ UNCHANGED <<clients, orders, users, nextId, now, req, res, mw, pre>>

\* The k-th waiting handler runs on to its response.
Resume(k, out) ==
    /\ now < MaxTime
    /\ req' = inflight[k]
    /\ mw' = NoMiddleware
    /\ res' = out.res
    /\ orders' = out.orders
    /\ nextId' = out.nextId
    /\ clients' = out.clients
    /\ users' = out.users
    /\ pre' = orders
    /\ now' = now + 1
    /\ inflight' = SubSeq(inflight, 1, k - 1) \o SubSeq(inflight, k + 1, Len(inflight))

\* POST /orders up to the answer of Client.findById: the handler answers 400
\* at once, or goes on to price and save.
PostOrdersLookup(clientId, items) ==
    IF IsObjectId(clientId) /\ findById(clients, clientId) # <<>>
    THEN Suspend(Request("POST /orders", <<>>,
                         [clientId |-> clientId, items |-> items, totalPrice |-> <<>>]))
    ELSE PostOrders(clientId, items, <<>>)

PostOrdersSave(k) ==
    /\ inflight[k].route = "POST /orders"
    /\ Resume(k, postOrderPriced(inflight[k].body.clientId, inflight[k].body.items))

\* POST /auth/register up to the answer of findOne: the handler answers 400 at
\* once, or goes on to save.
RegisterFind(name, email, password) ==
    IF registerValid(name, email, password) /\ find(users, [email |-> email]) = <<>>
    THEN Suspend(Request("POST /auth/register", <<>>,
                         [name |-> name, email |-> email, password |-> password]))
    ELSE Register(name, email, password)

RegisterSave(k) ==
    /\ inflight[k].route = "POST /auth/register"
    /\ Resume(k, registerSave(inflight[k].body.name, inflight[k].body.email,
                              inflight[k].body.password))

---------------------------------------------------------------------------
(* Specifications *)

\* The seeded store at a time: no user has registered, no request is in
\* flight.
Start(time) ==
    /\ clients = SeedClients
    /\ \E q \in SeedQuantities, t \in SeedTotals :
          /\ orders = SeedOrders(q, t)
          /\ pre = SeedOrders(q, t)
    /\ users = <<>>
    /\ inflight = <<>>
    /\ nextId = 41
    /\ now = time
    /\ req = [route |-> "", auth |-> <<>>, params |-> <<>>, query |-> <<>>,
              body |-> <<>>, at |-> 0]
    /\ res = Json("", 0, "", <<>>, <<>>)
    /\ mw = NoMiddleware

Init == Start(1)

\* Order creation and update.
Next ==
    \/ \E c \in ClientIdInputs \ {12}, its \in ItemSeqs, tp \in TotalPriceInputs :
          PostOrders(c, its, tp)
    \/ \E c \in {11, 99}, its \in ItemSeqs, tp \in TotalPriceInputs :
          PostOrdersBody(c, its, tp)
    \/ \E a \in {<<>>, BearerUser}, c \in {11, 99}, its \in ItemSeqs :
          PostClientOrders(a, c, its)
    \/ \E id \in OrderIdInputs, its \in ItemSeqs :
          PutOrders(id, its)
    \/ \E id \in OrderIdInputs :
          PatchCancel(id)
    \/ \E c \in {11, 12}, id \in {31, 41}, its \in ItemSeqs :
          PutClientOrder(BearerUser, c, id, its)

Spec == Init /\ [][Next]_vars

\* The bearer-token gate and the routes of one client's orders.
NextAuth ==
    \/ \E c \in {11, 99} : GetOrdersOfClient(c)
    \/ \E a \in AuthHeaders, c \in {11, 12} : GetClientOrders(a, c)
    \/ \E a \in AuthHeaders, c \in {11, 99} :
          PostClientOrders(a, c, <<[productId |-> 1, quantity |-> 1]>>)
    \/ \E a \in AuthHeaders, c \in {11, 12} : GetClientOrder(a, c, 31)
    \/ \E a \in AuthHeaders, c \in {11, 12}, p \in {2, 99} :
          PutClientOrder(a, c, 31, <<[productId |-> p, quantity |-> 1]>>)
    \/ \E a \in AuthHeaders, c \in {BadId, 11, 12} : DeleteClientOrder(a, c, 31)

SpecAuth == Init /\ [][NextAuth]_vars

\* The lists of clients and of orders, on a store that changes.
NextList ==
    \/ \E q \in ClientQueries : ListClients(q)
    \/ \E q \in OrderQueries : ListOrders(q)
    \/ \E n \in NewNames, e \in NewEmails : PostClient(n, e)
    \/ \E id \in {BadId, 12, 99} : DeleteClient(id)
    \/ \E id \in {31, 99} : PatchCancel(id)
    \/ PostOrders(11, <<[productId |-> 1, quantity |-> 1]>>, <<>>)

SpecList == Init /\ [][NextList]_vars

\* The status of a PUT /orders/:id body: left out, of the enum, or not.
StatusBodies == {<<>>, <<"shipped">>, <<"delivered">>, <<"bogus">>}

\* The default list: no query string.
NoClientQuery == [page |-> <<>>, limit |-> <<>>, name |-> <<>>, email |-> <<>>]

NoOrderQuery == [page |-> <<>>, limit |-> <<>>, status |-> <<>>]

\* Clients and orders from creation to deletion.
NextLife ==
    \/ \E n \in NewNames, e \in NewEmails : PostClient(n, e)
    \/ \E id \in {BadId, 12, 41}, n \in Given(NewNames \ {<<>>}), e \in Given(NewEmails) :
          PutClient(id, n, e)
    \/ \E id \in {BadId, 12, 41} : DeleteClient(id)
    \/ \E id \in {12, 41} : GetClient(id)
    \/ ListClients(NoClientQuery)
    \/ PostOrders(11, <<[productId |-> 1, quantity |-> 1]>>, <<>>)
    \/ \E id \in {BadId, 31, 99}, st \in StatusBodies : PutOrderStatus(id, st)
    \/ \E id \in {BadId, 31, 32, 99} : PatchCancel(id)
    \/ \E id \in {BadId, 31, 41} : DeleteOrder(id)
    \/ \E id \in {31, 41} : GetOrder(id)
    \/ ListOrders(NoOrderQuery)

SpecLife == Start(0) /\ [][NextLife]_vars

\* Registration and login.
NextUsers ==
    \/ \E n \in UserNames, e \in UserEmails, p \in Passwords : Register(n, e, p)
    \/ \E e \in UserEmails, p \in Passwords : Login(e, p)

SpecUsers == Start(0) /\ [][NextUsers]_vars

\* Requests that overlap: order creation against client deletion, and
\* registrations against one another.
NextRace ==
    \/ \E c \in {11, 12, 99}, p \in {1, 99} :
          PostOrdersLookup(c, <<[productId |-> p, quantity |-> 1]>>)
    \/ \E k \in 1..Len(inflight) : PostOrdersSave(k)
    \/ \E id \in {11, 12, 99} : DeleteClient(id)
    \/ \E n \in UserNames, e \in UserEmails, p \in {Padded(6, "x"), Padded(6, "y")} :
          RegisterFind(n, e, p)
    \/ \E k \in 1..Len(inflight) : RegisterSave(k)

SpecRace == Init /\ [][NextRace]_vars

---------------------------------------------------------------------------
(* What the claims speak of *)

ClientResolves(id) == \E i \in 1..Len(clients) : clients[i]._id = id

ProductResolves(id) == \E i \in 1..Len(products) : products[i]._id = id

AllResolve(items) == \A i \in 1..Len(items) : ProductResolves(items[i].productId)

\* The productId of the first item that resolves to no product.
FirstUnresolved(items) ==
    items[CHOOSE i \in 1..Len(items) :
             /\ ~ProductResolves(items[i].productId)
             /\ \A j \in 1..(i - 1) : ProductResolves(items[j].productId)].productId

UnitPrice(id) ==
    IF ProductResolves(id)
    THEN products[CHOOSE i \in 1..Len(products) : products[i]._id = id].price
    ELSE 0

\* The sum over the first n items of unit price x quantity.
RECURSIVE SumTo(_, _)
SumTo(items, n) ==
    IF n = 0
    THEN 0
    ELSE SumTo(items, n - 1) + UnitPrice(items[n].productId) * items[n].quantity

Total(items) == SumTo(items, Len(items))

QuantitiesValid(items) == \A i \in 1..Len(items) : items[i].quantity >= 1

\* The last request was an order creation that reached a pricing handler.
PricedCreate ==
    \/ req.route = "POST /orders" /\ res.by = "postOrder"
    \/ req.route = "POST /clients/:clientId/orders" /\ mw.next

\* The last request was an order creation that reached its handler.
AnyCreate ==
    \/ req.route = "POST /orders"
    \/ req.route = "POST /clients/:clientId/orders" /\ mw.next

CreateClientId ==
    IF req.route = "POST /orders" THEN req.body.clientId ELSE req.params.clientId

\* The last request was an update of an order's items that reached its handler.
ItemsUpdate ==
    \/ req.route = "PUT /orders/:id" /\ res.by = "putOrder"
    \/ req.route = "PUT /clients/:clientId/orders/:orderId" /\ mw.next

UpdateOrderId ==
    IF req.route = "PUT /orders/:id" THEN req.params.id ELSE req.params.orderId

\* The order the update's filter selected when the request arrived.
UpdateSelects(o) ==
    /\ o._id = UpdateOrderId
    /\ req.route = "PUT /clients/:clientId/orders/:orderId"
          => o.clientId = req.params.clientId

\* The ids of the update's path cast to ObjectIds.
UpdateIdsCast ==
    /\ IsObjectId(UpdateOrderId)
    /\ req.route = "PUT /clients/:clientId/orders/:orderId"
          => IsObjectId(req.params.clientId)

\* Exactly one order was added to the collection, and it is `o`.
AddedOne == Len(orders) = Len(pre) + 1 /\ SubSeq(orders, 1, Len(pre)) = pre

Added == orders[Len(orders)]

---------------------------------------------------------------------------
(* C1 *)

\* C1, as stated: an order creation whose clientId resolves to a client and
\* whose items all resolve to products persists exactly one order, with
\* totalPrice the sum of price x quantity, the items as supplied and status
\* pending.
C1_AsStated ==
    (PricedCreate /\ ClientResolves(CreateClientId) /\ AllResolve(req.body.items))
        => /\ res.status = 201
           /\ AddedOne
           /\ Added.clientId = CreateClientId
           /\ Added.items = req.body.items
           /\ Added.totalPrice = Total(req.body.items)
           /\ Added.status = "pending"

\* C1, amended: the same of every such creation whose quantities are all at
\* least 1; with a quantity below 1 the request fails with 400 and nothing is
\* persisted.
C1_CreatePricesAndPersists ==
    (PricedCreate /\ ClientResolves(CreateClientId) /\ AllResolve(req.body.items))
        => IF QuantitiesValid(req.body.items)
           THEN /\ res.status = 201
                /\ AddedOne
                /\ Added.clientId = CreateClientId
                /\ Added.items = req.body.items
                /\ Added.totalPrice = Total(req.body.items)
                /\ Added.status = "pending"
           ELSE res.status = 400 /\ orders = pre

C1_Witness ==
    /\ req.route = "POST /orders"
    /\ res.by = "postOrder"
    /\ res.status = 201
    /\ Len(req.body.items) = 2
    /\ req.body.items[1].quantity = 2
    /\ req.body.items[1].productId # req.body.items[2].productId
    /\ Len(pre) = 4
    /\ Len(orders) = 5

---------------------------------------------------------------------------
(* C2 *)

\* C2, as stated (of requests whose client and order ids are well-formed): an
\* order create or update with an item whose productId resolves to no product
\* fails with 400 naming the first such productId, and the Order collection is
\* as it was.
C2_AsStated ==
    (/\ PricedCreate \/ ItemsUpdate
     /\ PricedCreate => IsObjectId(CreateClientId)
     /\ ItemsUpdate => UpdateIdsCast
     /\ ~AllResolve(req.body.items))
        => /\ res.status = 400
           /\ res.detail = Names("Product", FirstUnresolved(req.body.items))
           /\ orders = pre

\* C2, amended: such a request fails with 400 and leaves the Order collection
\* as it was; the failure names the first unresolved productId in every update,
\* every client-scoped create, and every POST /orders whose clientId resolves
\* to a client (POST /orders looks the client up first).
C2_UnknownProductAborts ==
    ((PricedCreate \/ ItemsUpdate) /\ ~AllResolve(req.body.items))
        => /\ res.status = 400
           /\ orders = pre
           /\ (req.route = "POST /orders" => ClientResolves(req.body.clientId))
                 => res.detail = Names("Product", FirstUnresolved(req.body.items))

C2_Witness ==
    /\ req.route = "PUT /orders/:id"
    /\ req.params.id = 31
    /\ Len(req.body.items) = 2
    /\ req.body.items[1].productId = 99
    /\ req.body.items[2].productId = BadId
    /\ res.status = 400
    /\ res.detail = Names("Product", 99)

---------------------------------------------------------------------------
(* C3 *)

\* C3: the totalPrice an order creation or update persists is the sum the
\* server computes from the items, whatever totalPrice the body carries.
C3_TotalPriceNeverFromBody ==
    /\ (AnyCreate /\ res.status = 201) => Added.totalPrice = Total(req.body.items)
    /\ (ItemsUpdate /\ res.status = 200)
          => \A i \in 1..Len(orders) :
                orders[i]._id = UpdateOrderId
                    => orders[i].totalPrice = Total(req.body.items)

---------------------------------------------------------------------------
(* C4, C5, C6: the bearer-token gate *)

\* The routes clientOrdersRoutes.js puts behind authMiddleware.
GatedRoutes ==
    {"GET /clients/:clientId/orders",
     "POST /clients/:clientId/orders",
     "GET /clients/:clientId/orders/:orderId",
     "PUT /clients/:clientId/orders/:orderId",
     "DELETE /clients/:clientId/orders/:orderId"}

\* The routes that list, create, read, update or delete the orders of the
\* client a clientId path parameter selects.
ClientOrdersRoutes == GatedRoutes \cup {"GET /orders/clients/:clientId/orders"}

\* The string is a token signed with the server's key and not expired at t.
ValidJwt(piece, t) ==
    /\ piece \in DOMAIN Jwt
    /\ Jwt[piece].key = SECRET_KEY
    /\ t < Jwt[piece].exp

HeaderMissing == req.auth = <<>>

HeaderEmpty == req.auth # <<>> /\ req.auth[1] = <<>>

\* The token of the request: its header value less the first "Bearer ".
Token == replace(req.auth[1], "Bearer ")

\* The request carried a token that verified when the request arrived.
Verifies ==
    /\ req.auth # <<>>
    /\ Len(Token) = 1
    /\ ValidJwt(Token[1], req.at)

\* What the token decodes to.
Subject == << [userId |-> Jwt[Token[1]].userId, exp |-> Jwt[Token[1]].exp] >>

\* The middleware answered 401 with `message` and the handler did not run.
Denied(message) ==
    /\ mw.sent = << Json("authMiddleware", 401, message, <<>>, <<>>) >>
    /\ ~mw.next
    /\ mw.user = <<>>
    /\ res = mw.sent[1]
    /\ orders = pre

\* The middleware sent nothing, set req.user and the handler ran.
Passed ==
    /\ mw.sent = <<>>
    /\ mw.next
    /\ mw.user = Subject
    /\ res.by # "authMiddleware"

\* The header is "Bearer <token>" and the token verifies.
BearerForm ==
    /\ Len(req.auth) = 1
    /\ Len(req.auth[1]) = 2
    /\ req.auth[1][1] = "Bearer "
    /\ ValidJwt(req.auth[1][2], req.at)

\* C4, as stated: of a request through the middleware, (1) without an
\* Authorization header the answer is 401 "Access denied. No token provided."
\* and the handler does not run; (2) with a header whose token does not verify
\* the answer is 401 "Invalid token" and the handler does not run; (3) with a
\* token that verifies the decoded subject is set on the request, the
\* middleware sends nothing and the handler runs.
C4_AsStated ==
    req.route \in GatedRoutes
        => /\ HeaderMissing => Denied("Access denied. No token provided.")
           /\ (~HeaderMissing /\ ~Verifies) => Denied("Invalid token")
           /\ Verifies => Passed

\* C4, amended: as stated, but outcome (1) is that of a missing and of an empty
\* header, and outcome (2) that of a non-empty header whose token does not
\* verify.
C4_ThreeOutcomes ==
    req.route \in GatedRoutes
        => /\ (HeaderMissing \/ HeaderEmpty)
                 => Denied("Access denied. No token provided.")
           /\ (~HeaderMissing /\ ~HeaderEmpty /\ ~Verifies) => Denied("Invalid token")
           /\ Verifies => Passed

\* A token that was good for the first request (an order was created) has
\* expired when the second request presents it: "Invalid token".
C4_Witness ==
    /\ req.route \in GatedRoutes
    /\ req.auth = << <<"Bearer ", "jwtExpiring">> >>
    /\ req.at = 2
    /\ Len(pre) = 4
    /\ pre[4].createdAt = 1
    /\ res.message = "Invalid token"
    /\ ~mw.next

\* C5: the handler of an authenticated route runs only for a header of the
\* form "Bearer <token>" whose token verifies; every other header (a valid
\* token without the prefix, another scheme) is answered 401.
C5_OnlyBearerForm ==
    req.route \in GatedRoutes
        => /\ mw.next => BearerForm
           /\ ~BearerForm => res.status = 401 /\ res.by = "authMiddleware"

\* C6: on every route of one client's orders a request without a valid token
\* runs no handler, gets no order data and leaves the store as it was.
C6_ClientOrdersGated ==
    (req.route \in ClientOrdersRoutes /\ ~Verifies)
        => /\ res.by = "authMiddleware"
           /\ res.status = 401
           /\ res.data = <<>>
           /\ orders = pre

---------------------------------------------------------------------------
(* C7 *)

\* C7: every order creation, top-level and client-scoped, answers 400 to a
\* clientId that resolves to no client and persists nothing; when a product is
\* unknown too, the failure is the one about the client.
C7_UnknownClientRejected ==
    (AnyCreate /\ ~ClientResolves(CreateClientId))
        => /\ res.status = 400
           /\ orders = pre
           /\ \/ res.message = "Invalid client ID"
              \/ res.detail = Names("Client", CreateClientId)

---------------------------------------------------------------------------
(* C8 *)

ListRequest == req.route \in {"GET /clients", "GET /orders"}

\* The string is the decimal numeral of an integer.
IsNumeral(str) == str # <<>> /\ \A i \in 1..Len(str) : IsDigit(str[i])

RECURSIVE Decimal(_)
Decimal(str) ==
    IF str = <<>>
    THEN 0
    ELSE Decimal(SubSeq(str, 1, Len(str) - 1)) * 10 + DigitValue(str[Len(str)])

\* The parameter is left out, or is an integer >= 1.
Paging(param) == param = <<>> \/ (IsNumeral(param[1]) /\ Decimal(param[1]) >= 1)

Requested(param, default) == IF param = <<>> THEN default ELSE Decimal(param[1])

RequestedPage == Requested(req.query.page, 1)

RequestedLimit == Requested(req.query.limit, 10)

\* The records of the store that match the request's filter, as the list shows
\* them, in the store's order.
Matching ==
    IF req.route = "GET /clients"
    THEN formatted(findRegExp(clients, queryOf(req.query, {"name", "email"}, <<>>)))
    ELSE listed(find(pre, queryOf(req.query, {"status"}, "")))

Ceil(n, d) == CHOOSE k \in 0..n : k * d >= n /\ (k = 0 \/ (k - 1) * d < n)

Min(a, b) == IF a < b THEN a ELSE b

Max(a, b) == IF a < b THEN b ELSE a

\* C8: a list request whose page and limit are integers >= 1 or left out
\* (page=1 and limit=10 then) answers total = N, the number of matching
\* records, the requested page and limit, totalPages = ceil(N/limit), and as
\* data the matching records at offsets (page-1)*limit up to but excluding
\* page*limit: min(limit, max(0, N-(page-1)*limit)) of them.
C8_Pagination ==
    (ListRequest /\ Paging(req.query.page) /\ Paging(req.query.limit))
        => LET N      == Len(Matching)
               offset == (RequestedPage - 1) * RequestedLimit
               count  == Min(RequestedLimit, Max(0, N - offset))
           IN  /\ res.status = 200
               /\ res.total = N
               /\ res.page = RequestedPage
               /\ res.limit = RequestedLimit
               /\ res.totalPages = << Ceil(N, RequestedLimit) >>
               /\ res.data = [i \in 1..count |-> Matching[offset + i]]
               /\ orders = pre

\* Page 2 of the clients by twos, after a fourth client was created: the third
\* and the fourth, of two pages.
C8_Witness ==
    /\ req.route = "GET /clients"
    /\ req.query.page = << <<"2">> >>
    /\ req.query.limit = << <<"2">> >>
    /\ req.query.name = <<>>
    /\ req.query.email = <<>>
    /\ Len(clients) = 4
    /\ res.total = 4
    /\ res.totalPages = <<2>>
    /\ res.data = formatted(SubSeq(clients, 3, 4))

---------------------------------------------------------------------------
(* C9 *)

\* C9, as stated (of well-formed ids): an update of the items of an order id
\* that matches no stored order answers 404 and leaves the store as it was,
\* whatever the items.
C9_AsStated ==
    (ItemsUpdate /\ UpdateIdsCast /\ \A i \in 1..Len(pre) : pre[i]._id # UpdateOrderId)
        => res.status = 404 /\ orders = pre

\* C9, amended: an update on a well-formed id that matches no stored order
\* leaves the store as it was and answers 404 when every product of the items
\* resolves; with an item of no product it answers 400 naming that product
\* (the items are priced before the order is looked up).
C9_UpdateOfAbsentOrder ==
    (ItemsUpdate /\ UpdateIdsCast /\ \A i \in 1..Len(pre) : pre[i]._id # UpdateOrderId)
        => /\ orders = pre
           /\ IF AllResolve(req.body.items)
              THEN res.status = 404
              ELSE /\ res.status = 400
                   /\ res.detail = Names("Product", FirstUnresolved(req.body.items))

C9_Witness ==
    /\ req.route = "PUT /orders/:id"
    /\ req.params.id = 99
    /\ Len(req.body.items) = 2
    /\ AllResolve(req.body.items)
    /\ res.status = 404

---------------------------------------------------------------------------
(* C10 *)

\* C10: an update of an existing order with items that all resolve replaces
\* the order's items by the supplied ones and its totalPrice by their sum, and
\* leaves its clientId, status and createdAt, and every other order, as they
\* were.
C10_UpdateFrame ==
    (/\ ItemsUpdate
     /\ UpdateIdsCast
     /\ \E i \in 1..Len(pre) : UpdateSelects(pre[i])
     /\ AllResolve(req.body.items))
        => /\ res.status = 200
           /\ Len(orders) = Len(pre)
           /\ \A i \in 1..Len(pre) :
                 orders[i] = IF UpdateSelects(pre[i])
                             THEN [pre[i] EXCEPT !.items = req.body.items,
                                                 !.totalPrice = Total(req.body.items)]
                             ELSE pre[i]

C10_Witness ==
    /\ req.route = "PUT /orders/:id"
    /\ req.params.id = 31
    /\ res.status = 200
    /\ Len(req.body.items) = 2
    /\ \E i \in 1..Len(orders) :
          /\ orders[i]._id = 31
          /\ orders[i].status = "canceled"
          /\ orders[i].createdAt = 0
          /\ orders[i].items = req.body.items

---------------------------------------------------------------------------
(* C11 *)

\* The last request was a cancel of a well-formed order id.
Cancel == req.route = "PATCH /orders/:id/cancel" /\ IsObjectId(req.params.id)

\* C11: a cancel of an existing order, whatever its status, sets its status
\* to "canceled" and leaves its other fields, and every other order, as they
\* were (so a second cancel changes nothing); a cancel of an id of no order
\* answers 404 and changes nothing.
C11_Cancel ==
    Cancel
        => IF \E i \in 1..Len(pre) : pre[i]._id = req.params.id
           THEN /\ res.status = 200
                /\ Len(orders) = Len(pre)
                /\ \A i \in 1..Len(pre) :
                      /\ orders[i]._id = pre[i]._id
                      /\ orders[i].clientId = pre[i].clientId
                      /\ orders[i].items = pre[i].items
                      /\ orders[i].totalPrice = pre[i].totalPrice
                      /\ orders[i].createdAt = pre[i].createdAt
                      /\ orders[i].status =
                            IF pre[i]._id = req.params.id
                            THEN "canceled"
                            ELSE pre[i].status
                /\ (\A i \in 1..Len(pre) :
                       pre[i]._id = req.params.id => pre[i].status = "canceled")
                      => orders = pre
           ELSE /\ res.status = 404
                /\ orders = pre

\* A delivered order, with another order canceled before it, is canceled.
C11_Witness ==
    /\ Cancel
    /\ res.status = 200
    /\ \E i, j \in 1..Len(pre) :
          /\ pre[i]._id = req.params.id
          /\ pre[i].status = "delivered"
          /\ orders[i].status = "canceled"
          /\ pre[j].status = "canceled"

---------------------------------------------------------------------------
(* C12 *)

\* The ids the store has given out so far: the seeded ones and the created.
EverIds ==
    {SeedClients[i]._id : i \in 1..Len(SeedClients)}
        \cup {SeedOrders(1, 1)[i]._id : i \in 1..Len(SeedClients)}
        \cup 41..(nextId - 1)

OrderResolves(id) == \E i \in 1..Len(orders) : orders[i]._id = id

\* Ids given out that name no client (no order) now: the record was deleted.
GoneClients == {id \in EverIds : ~ClientResolves(id)}

GoneOrders == {id \in EverIds : ~OrderResolves(id)}

\* One request served on a store some records of which are gone.
GoneStaysGone ==
    /\ \A id \in GoneClients : ~ClientResolves(id)'
    /\ \A id \in GoneOrders : ~OrderResolves(id)'
    /\ (req'.route = "DELETE /clients/:id" /\ req'.params.id \in GoneClients)
          => res'.status = 404 /\ clients' = clients /\ orders' = orders
    /\ (req'.route = "DELETE /orders/:id" /\ req'.params.id \in GoneOrders)
          => res'.status = 404 /\ clients' = clients /\ orders' = orders
    /\ (req'.route = "GET /clients/:id" /\ req'.params.id \in GoneClients)
          => res'.status = 404
    /\ (req'.route = "GET /orders/:id" /\ req'.params.id \in GoneOrders)
          => res'.status = 404
    /\ (req'.route = "GET /clients" /\ res'.status = 200)
          => \A i \in 1..Len(res'.data) : res'.data[i].id \notin GoneClients
    /\ (req'.route = "GET /orders" /\ res'.status = 200)
          => \A i \in 1..Len(res'.data) : res'.data[i].id \notin GoneOrders

\* C12: once a client or an order is deleted its id names no record again:
\* every later DELETE of the id answers 404 and changes nothing, every later
\* get by id answers 404, and no later list shows it.
C12_DeletedStaysDeleted == [][GoneStaysGone]_vars

\* The third request is a DELETE of a seeded client that was deleted before:
\* 404, with two clients left.
C12_Witness ==
    /\ req.at = 2
    /\ req.route = "DELETE /clients/:id"
    /\ req.params.id = 12
    /\ res.status = 404
    /\ Len(clients) = 2
    /\ ~ClientResolves(12)

---------------------------------------------------------------------------
(* C13 *)

\* The request just served was a registration that succeeded.
Registered == req.route = "POST /auth/register" /\ res.status = 201

UserKnown(email) == \E i \in 1..Len(users) : users[i].email = email

\* The request served next is a login that is given a token.
TokenGiven == res'.status = 200 /\ Len(res'.data) = 1

\* A login that follows a registration of email e with password p.
LoginAfterRegister ==
    (Registered /\ req'.route = "POST /auth/login")
        => /\ (req'.body.email = req.body.email
                  /\ req'.body.password = req.body.password)
                 => /\ TokenGiven
                    /\ \E i \in 1..Len(users) :
                          /\ users[i].email = req.body.email
                          /\ res'.data[1].token.userId = users[i]._id
                          /\ users[i]._id = nextId - 1
           /\ (req'.body.email = req.body.email
                  /\ req'.body.password # req.body.password)
                 => /\ res'.status = 400
                    /\ res'.data = <<>>

\* A login with an email that was never registered.
LoginUnknown ==
    (req'.route = "POST /auth/login" /\ ~UserKnown(req'.body.email))
        => res'.status = 400 /\ res'.data = <<>>

\* C13: after register succeeds for e with p, login(e, p) is given a token
\* whose subject is the id of the user that registration created; login with e
\* and another password, or with an email never registered, is given a failure
\* and no token.
C13_RegisterLoginRoundTrip == [][LoginAfterRegister /\ LoginUnknown]_vars

---------------------------------------------------------------------------
(* C14 *)

UniqueEmails ==
    \A i, j \in 1..Len(clients) : clients[i].email = clients[j].email => i = j

\* The request served next would give a second client an email that a client
\* has: a create with that email, or an update of another client to it.
Duplicating ==
    \/ /\ req'.route = "POST /clients"
       /\ \E i \in 1..Len(clients) : clients[i].email = req'.body.email
    \/ /\ req'.route = "PUT /clients/:id"
       /\ req'.body.email # <<>>
       /\ \E i \in 1..Len(clients) :
             /\ clients[i]._id # req'.params.id
             /\ clients[i].email = req'.body.email[1]

\* C14: over every sequence of client creates, updates and deletes no two
\* stored clients have the same email, and a create or update that would
\* duplicate an email is answered with an error and leaves the clients as
\* they were.
C14_UniqueEmail ==
    /\ UniqueEmails
    /\ [][/\ UniqueEmails'
          /\ Duplicating => (res'.status \in {400, 404} /\ clients' = clients)]_vars

\* After a client was created, an update of a seeded client to the new
\* client's email is refused.
C14_Witness ==
    /\ req.route = "PUT /clients/:id"
    /\ req.params.id = 12
    /\ Len(clients) = 4
    /\ req.body.email = <<clients[4].email>>
    /\ res.status = 400
    /\ clients[2].email = SeedClients[2].email

---------------------------------------------------------------------------
(* C15 *)

\* The last request reached the handler of a scoped get, update or delete of
\* one order, with ids that cast.
ScopedOne ==
    /\ req.route \in {"GET /clients/:clientId/orders/:orderId",
                      "PUT /clients/:clientId/orders/:orderId",
                      "DELETE /clients/:clientId/orders/:orderId"}
    /\ mw.next
    /\ IsObjectId(req.params.clientId)
    /\ IsObjectId(req.params.orderId)

\* The order of the path exists and is another client's.
Foreign ==
    \E i \in 1..Len(pre) :
        pre[i]._id = req.params.orderId /\ pre[i].clientId # req.params.clientId

\* Only orders of the path's client are returned, changed or removed.
OnlyOwn ==
    ScopedOne
        => /\ \A i \in 1..Len(res.data) : res.data[i].clientId = req.params.clientId
           /\ \A i \in 1..Len(pre) :
                 pre[i].clientId # req.params.clientId
                     => \E j \in 1..Len(orders) : orders[j] = pre[i]

\* The scoped list shows the orders of the path's client, and no other.
ListExact ==
    (req.route = "GET /clients/:clientId/orders" /\ mw.next
        /\ IsObjectId(req.params.clientId))
        => /\ res.status = 200
           /\ res.data = populated(SelectSeq(pre,
                             LAMBDA o : o.clientId = req.params.clientId))
           /\ orders = pre

\* C15, as stated: the scoped get, update and delete act on an order only when
\* it is the path's client's; on an existing order of another client they
\* answer 404 and leave it as it was; the scoped list is exactly the orders of
\* the path's client.
C15_AsStated ==
    /\ (ScopedOne /\ Foreign) => (res.status = 404 /\ orders = pre)
    /\ OnlyOwn
    /\ ListExact

\* C15, amended: as stated, but an update whose items name a product that
\* resolves to none is answered 400 (the items are priced before the order is
\* looked up); the order is left as it was all the same.
C15_ScopedToClient ==
    /\ (ScopedOne /\ Foreign)
          => /\ orders = pre
             /\ res.data = <<>>
             /\ res.status =
                   IF /\ req.route = "PUT /clients/:clientId/orders/:orderId"
                      /\ ~AllResolve(req.body.items)
                   THEN 400
                   ELSE 404
    /\ OnlyOwn
    /\ ListExact

\* With a good token, client 12 asks to delete the order of client 11: 404,
\* and the order stays.
C15_Witness ==
    /\ req.route = "DELETE /clients/:clientId/orders/:orderId"
    /\ mw.next
    /\ req.params = [clientId |-> 12, orderId |-> 31]
    /\ \E i \in 1..Len(pre) : pre[i]._id = 31 /\ pre[i].clientId = 11
    /\ res.status = 404
    /\ orders = pre

---------------------------------------------------------------------------
(* C16 *)

ItemsValid(order) ==
    /\ order.items # <<>>
    /\ \A i \in 1..Len(order.items) : order.items[i].quantity >= 1

\* C16: over every sequence of order creates and updates each persisted order
\* has at least one item and quantities of at least 1, and a create or update
\* with no item or with a quantity below 1 persists nothing.
C16_ItemsNonEmptyAndPositive ==
    /\ \A i \in 1..Len(orders) : ItemsValid(orders[i])
    /\ ((AnyCreate \/ ItemsUpdate) /\ ~ItemsValid(req.body))
          => orders = pre

---------------------------------------------------------------------------
(* C17 *)

\* The enum of OrderSchema.status.
Statuses == {"pending", "shipped", "delivered", "canceled"}

\* The last request was a status overwrite without a status of the enum.
BadOverwrite ==
    /\ req.route = "PUT /orders/:id"
    /\ res.by = "putOrderStatus"
    /\ (req.body.status = <<>> \/ req.body.status[1] \notin Statuses)

\* C17: over every sequence of order creates, updates, status overwrites,
\* cancels and deletes the status of each persisted order is of the enum, and
\* a status overwrite with no status, or with one outside the enum, leaves the
\* stored status as it was.
C17_StatusInEnum ==
    /\ \A i \in 1..Len(orders) : orders[i].status \in Statuses
    /\ BadOverwrite => orders = pre

---------------------------------------------------------------------------
(* C18 *)

\* C18: under every interleaving an order that order creation persists names
\* a client that is in the store when the order is written, a DELETE of the
\* client between the handler's lookup and its save included.
C18_ClientExistsAtWrite ==
    (req.route = "POST /orders" /\ res.status = 201)
        => /\ AddedOne
           /\ ClientResolves(Added.clientId)

---------------------------------------------------------------------------
(* C19 *)

UniqueUserEmails ==
    \A i, j \in 1..Len(users) : users[i].email = users[j].email => i = j

\* C19: under every interleaving of registrations with one valid email at most
\* one user with the email is stored, one request is answered 201 and every
\* other 400, never 201 and never 500.
C19_OneRegistrationWins ==
    /\ UniqueUserEmails
    /\ req.route = "POST /auth/register" => res.status \in {201, 400}
    /\ (req.route = "POST /auth/register" /\ res.status = 201)
          => /\ Len(users) > 0
             /\ users[Len(users)].email = req.body.email
             /\ users[Len(users)]._id = nextId - 1

====
